---- MODULE Spec2Model ----
(***************************************************************************)
(* Model of microperspective-corrector: the Border Refiner (src/crop.py),  *)
(* the Region Detector (src/detect.py), the Perspective Corrector's crop   *)
(* arithmetic (src/transform.py), the persistence step (src/utils.py), the *)
(* Pipeline Controller (edge_detection.py) and the batch loop (main.py).   *)
(*                                                                         *)
(* Arrays are records [h, w, px] with px[r][c] indexed from 0 as in numpy; *)
(* a numpy basic slice is modelled by PySlice, with Python's clamping and  *)
(* negative-index rule.  Points are <<row, col>> tuples: point[1] is the   *)
(* source's point[0].                                                      *)
(***************************************************************************)
EXTENDS Integers, Sequences, FiniteSets, TLC

VARIABLES
    \* ---- remove_lateral_blacks (src/src/crop.py) ----
    warped,         \* the colour crop handed to remove_lateral_blacks
    warped_white,   \* the white-background crop handed to it
    binary,         \* the current binary mask
    cropped,        \* the colour buffer being cropped
    cropped_white,  \* the white-background buffer being cropped
    edges,          \* the four corner descriptors of get_binary_edges
    crop_points,    \* navigate_edges' result, one entry per corner
    rl_k,           \* position of apply_cropping's loop over the corners
    rl_pc,          \* position inside remove_lateral_blacks
    rl_run,         \* 1 for the first call, 2 for the call on its own output
    show_step_by_step,          \* remove_lateral_blacks' show_step_by_step argument
    plot_corner_discontinuity,  \* its plot_corner_discontinuity argument
    \* ---- process_tiff (src/edge_detection.py) ----
    image_file,     \* the file at image_path
    border_pixels,  \* the border_pixels argument
    image,          \* load_image's result
    thresh,         \* the value bound to `thresh`
    page_contour,   \* find_page_contour's result
    copied,         \* the `copied` flag
    pt_warped,      \* the value bound to `warped` in process_tiff
    written,        \* the buffer written to output_path_tiff, if any
    pt_trace,       \* the stages the run has completed, in order
    pt_pc,          \* position inside process_tiff
    border_value,   \* the border fill of the warp_image call, if any
    \* ---- main (src/main.py) and Spinner (src/src/spinner.py) ----
    image_files,        \* find_images_recursive's result
    image_input_format, \* the image_input_format argument
    verbose,            \* the verbose argument
    info_data,          \* the info_data dict
    info_json,          \* the content of info.json
    attempted,          \* positions of the files process_tiff was called for
    m_i,                \* number of completed iterations of the batch loop
    m_exc,              \* the exception main ended with
    m_pc,               \* position inside main
    stop_event,         \* Spinner.stop_event
    sp_idx,             \* idx of _spinner_task
    sp_thread,          \* state of Spinner.spinner_thread
    \* ---- warp_image (src/src/transform.py), step by step ----
    w_image,          \* shape of the image argument
    w_contour,        \* the page_contour argument
    w_border,         \* the border_pixels argument
    rect,             \* cv2.minAreaRect's result
    angle,            \* the angle handed to getRotationMatrix2D
    box,              \* np.intp(cv2.boxPoints(rect))
    crop_no_rotation, \* the un-rotated reference crop
    M,                \* the rotation matrix
    rotated_np,       \* shape of the rotated canvas
    rotated_box,      \* the box after cv2.transform, in tenths of a pixel
    bounding_rect,    \* x, y, w, h as cv2.boundingRect(rotated_box) gives them
    w_cropped,        \* the corrected crop
    w_pc,             \* position inside warp_image
    \* ---- the thresholds and the blur kernel, one call at a time ----
    fn_arg,           \* the arguments of the call
    fn_res,           \* its result
    fn_pc             \* "call" before the call, "done" after it

cropVars == <<warped, warped_white, binary, cropped, cropped_white, edges,
              crop_points, rl_k, rl_pc, rl_run, show_step_by_step,
              plot_corner_discontinuity>>

tiffVars == <<image_file, border_pixels, image, thresh, page_contour, copied,
              pt_warped, written, pt_trace, pt_pc, border_value>>

mainVars == <<image_files, image_input_format, verbose, info_data, info_json,
              attempted, m_i, m_exc, m_pc, stop_event, sp_idx, sp_thread>>

warpVars == <<w_image, w_contour, w_border, rect, angle, box, crop_no_rotation,
              M, rotated_np, rotated_box, bounding_rect, w_cropped, w_pc>>

fnVars == <<fn_arg, fn_res, fn_pc>>

vars == <<cropVars, tiffVars, mainVars, warpVars, fnVars>>

\* ---------------------------------------------------------------------------
\* Bounds of the model
\* ---------------------------------------------------------------------------
MaxH == 3          \* rows of an arbitrary input crop
MaxW == 3          \* columns of an arbitrary input crop
MaxInnerH == 3     \* rows of the arbitrary interior of a framed input crop
MaxInnerW == 3     \* columns of that interior
MaxArea == 9       \* pixels of an arbitrary input crop or interior
MaxFullDim == 6    \* side of a fully-foreground input crop
MaxImages == 2     \* files of a batch
MaxSpinTicks == 2  \* frames the spinner thread draws
MaxMinDim == 2650  \* smaller side of an image handed to the Binarizer
MaxWarpDim == 6    \* side of an image handed to warp_image with an upright page
MaxWarpBorder == 2 \* border_pixels of a warp_image call
MaxPatchDim == 41  \* side of an image whose patches are measured

\* ---------------------------------------------------------------------------
\* numpy / Python helpers
\* ---------------------------------------------------------------------------
Max(a, b) == IF a >= b THEN a ELSE b
Min(a, b) == IF a <= b THEN a ELSE b
Abs(a) == IF a < 0 THEN -a ELSE a
\* min and max of a non-empty set of integers
MinOf(S) == CHOOSE x \in S : \A y \in S : x <= y
MaxOf(S) == CHOOSE x \in S : \A y \in S : x >= y

\* One end of a Python slice on an axis of length n: a negative index counts
\* from the end, and the result is clamped into 0..n.
PyIdx(n, i) == IF i < 0 THEN Max(0, i + n) ELSE Min(i, n)

\* a[lo:hi] on an axis of length n, as <<start, stop>> with start <= stop.
PySlice(n, lo, hi) == <<PyIdx(n, lo), Max(PyIdx(n, lo), PyIdx(n, hi))>>
\* a[lo:] and a[:hi]
PySliceFrom(n, lo) == <<PyIdx(n, lo), n>>
PySliceTo(n, hi) == <<0, PyIdx(n, hi)>>

\* a[rs[1]:rs[2], cs[1]:cs[2]] for normalised ranges rs, cs.
SliceArray(a, rs, cs) ==
    [h |-> rs[2] - rs[1], w |-> cs[2] - cs[1],
     px |-> [r \in 0..(rs[2] - rs[1] - 1) |->
               [c \in 0..(cs[2] - cs[1] - 1) |-> a.px[rs[1] + r][cs[1] + c]]]]

Shape(a) == <<a.h, a.w>>
IsEmpty(a) == a.h = 0 \/ a.w = 0
\* a[r, c] with numpy's negative-index rule.
At(a, r, c) == a.px[IF r < 0 THEN r + a.h ELSE r][IF c < 0 THEN c + a.w ELSE c]

NoArray == [h |-> 0, w |-> 0, px |-> <<>>]

\* ---------------------------------------------------------------------------
\* Pixels
\* ---------------------------------------------------------------------------
DarkPx == <<50, 50, 50>>      \* BGR, gray 50: the darkest side of the cut
LightPx == <<51, 51, 51>>     \* BGR, gray 51: just above the cut
PixelChoices == {DarkPx, LightPx}

\* cv2.cvtColor(.., COLOR_BGR2GRAY): OpenCV's 14-bit fixed-point BT.601.
BGR2GRAY(p) == (p[1] * 1868 + p[2] * 9617 + p[3] * 4899 + 8192) \div 16384

\* cv2.threshold(gray, 50, 255, cv2.THRESH_BINARY_INV) on one pixel.
ThresholdBinaryInv(g) == IF g > 50 THEN 0 ELSE 255

AllArrays(h, w) ==
    {[h |-> h, w |-> w, px |-> f] : f \in [0..(h - 1) -> [0..(w - 1) -> PixelChoices]]}

UniformArray(h, w, p) ==
    [h |-> h, w |-> w, px |-> [r \in 0..(h - 1) |-> [c \in 0..(w - 1) |-> p]]]

\* inner surrounded by a one-pixel frame of content pixels.
Framed(inner) ==
    [h |-> inner.h + 2, w |-> inner.w + 2,
     px |-> [r \in 0..(inner.h + 1) |-> [c \in 0..(inner.w + 1) |->
               IF r \in 1..inner.h /\ c \in 1..inner.w
               THEN inner.px[r - 1][c - 1] ELSE LightPx]]]

\* ---------------------------------------------------------------------------
\* src/src/crop.py
\* ---------------------------------------------------------------------------
\* The dict `edges` of get_binary_edges, in insertion order.
EdgesOf(b) ==
    << [name |-> "top-left",     point |-> <<0, 0>>,             direction |-> <<1, 1>>],
       [name |-> "top-right",    point |-> <<0, b.w - 1>>,       direction |-> <<1, -1>>],
       [name |-> "bottom-left",  point |-> <<b.h - 1, 0>>,       direction |-> <<-1, 1>>],
       [name |-> "bottom-right", point |-> <<b.h - 1, b.w - 1>>, direction |-> <<-1, -1>>] >>

\* The binary image of get_binary_edges: gray, then the fixed inverse threshold.
BinaryOf(img) ==
    [h |-> img.h, w |-> img.w,
     px |-> [r \in 0..(img.h - 1) |-> [c \in 0..(img.w - 1) |->
               ThresholdBinaryInv(BGR2GRAY(img.px[r][c]))]]]

\* get_binary_edges(cropped): cv2.cvtColor rejects an empty array.
get_binary_edges(img) ==
    IF IsEmpty(img) THEN [raised |-> TRUE, binary |-> NoArray, edges |-> <<>>]
    ELSE [raised |-> FALSE, binary |-> BinaryOf(img), edges |-> EdgesOf(BinaryOf(img))]

RowAll255(b, row) == \A c \in 0..(b.w - 1) : b.px[row][c] = 255
ColAll255(b, col) == \A r \in 0..(b.h - 1) : b.px[r][col] = 255

\* for row in range(h): if np.all(..): top_black = row  else: break
RECURSIVE ScanTop(_, _, _)
ScanTop(b, row, acc) ==
    IF row >= b.h THEN acc
    ELSE IF RowAll255(b, row) THEN ScanTop(b, row + 1, row) ELSE acc

\* for row in range(h - 1, -1, -1): ...
RECURSIVE ScanBottom(_, _, _)
ScanBottom(b, row, acc) ==
    IF row < 0 THEN acc
    ELSE IF RowAll255(b, row) THEN ScanBottom(b, row - 1, row) ELSE acc

RECURSIVE ScanLeft(_, _, _)
ScanLeft(b, col, acc) ==
    IF col >= b.w THEN acc
    ELSE IF ColAll255(b, col) THEN ScanLeft(b, col + 1, col) ELSE acc

RECURSIVE ScanRight(_, _, _)
ScanRight(b, col, acc) ==
    IF col < 0 THEN acc
    ELSE IF ColAll255(b, col) THEN ScanRight(b, col - 1, col) ELSE acc

\* BlackBounds with top_black and left_black starting from -1.
BlackBounds_InitMinusOne(b) ==
    [top |-> ScanTop(b, 0, -1), bottom |-> ScanBottom(b, b.h - 1, b.h),
     left |-> ScanLeft(b, 0, -1), right |-> ScanRight(b, b.w - 1, b.w)]

\* The four boundaries crop_black_borders finds, from their initial values
\* 0, binary.shape[0], 0, binary.shape[1].
BlackBounds(b) ==
    [top |-> ScanTop(b, 0, 0), bottom |-> ScanBottom(b, b.h - 1, b.h),
     left |-> ScanLeft(b, 0, 0), right |-> ScanRight(b, b.w - 1, b.w)]

\* The slice crop_black_borders applies to one buffer:
\* buf[top_black+1:bottom_black-1, left_black+1:right_black-1].
CropToBounds(buf, k) ==
    SliceArray(buf, PySlice(buf.h, k.top + 1, k.bottom - 1),
                    PySlice(buf.w, k.left + 1, k.right - 1))

crop_black_borders(wrp, wrp_white, b) ==
    [cropped |-> CropToBounds(wrp, BlackBounds(b)),
     cropped_white |-> CropToBounds(wrp_white, BlackBounds(b))]

\* First loop of navigate_edges: walk the rows from the corner along column y.
RECURSIVE WalkRows(_, _, _, _, _, _)
WalkRows(b, x, y, d, i, acc) ==
    IF i >= b.h THEN acc
    ELSE IF At(b, x + i * d, y) = 255 THEN WalkRows(b, x, y, d, i + 1, x + i * d)
    ELSE acc

\* Second loop: walk the columns from the corner along row x.
RECURSIVE WalkCols(_, _, _, _, _, _)
WalkCols(b, x, y, d, i, acc) ==
    IF i >= b.w THEN acc
    ELSE IF At(b, x, y + i * d) = 255 THEN WalkCols(b, x, y, d, i + 1, y + i * d)
    ELSE acc

\* discontinuities of one corner.
Discontinuities(b, e) ==
    <<WalkRows(b, e.point[1], e.point[2], e.direction[1], 0, e.point[1]),
      WalkCols(b, e.point[1], e.point[2], e.direction[2], 0, e.point[2])>>

\* ArgMin taking the last minimum.
ArgMin_TieToColumn(d) == IF d[1] < d[2] THEN 1 ELSE 2

\* np.argmin over the two distances: the first minimum, as a tuple position.
ArgMin(d) == IF d[1] <= d[2] THEN 1 ELSE 2

NoCrop == [crop |-> FALSE]

\* CornerCrop without the test of the corner pixel.
CornerCrop_NoSkip(b, e) ==
    LET disc == Discontinuities(b, e)
        dist == <<Abs(e.point[1] - disc[1]), Abs(e.point[2] - disc[2])>>
        idx  == ArgMin(dist)
    IN [crop |-> TRUE,
        point |-> [j \in 1..2 |-> IF j = idx THEN disc[j] ELSE e.point[j]],
        direction |-> idx - 1,
        keep |-> IF e.direction[idx] = 1 THEN "after" ELSE "before"]

\* The entry navigate_edges makes for one corner ('direction' is the axis:
\* 0 for rows, 1 for columns), or NoCrop when the corner pixel is not 255.
CornerCrop(b, e) ==
    IF At(b, e.point[1], e.point[2]) = 255
    THEN LET disc == Discontinuities(b, e)
             dist == <<Abs(e.point[1] - disc[1]), Abs(e.point[2] - disc[2])>>
             idx  == ArgMin(dist)
         IN [crop |-> TRUE,
             point |-> [j \in 1..2 |-> IF j = idx THEN disc[j] ELSE e.point[j]],
             direction |-> idx - 1,
             keep |-> IF e.direction[idx] = 1 THEN "after" ELSE "before"]
    ELSE NoCrop

navigate_edges(b, es) == [k \in 1..Len(es) |-> CornerCrop(b, es[k])]

\* The slice one corner's crop applies to one buffer in apply_cropping.
ApplyCrop(buf, cp) ==
    IF ~cp.crop THEN buf
    ELSE IF cp.direction = 0
    THEN IF cp.keep = "after"
         THEN SliceArray(buf, PySliceFrom(buf.h, cp.point[1]), <<0, buf.w>>)
         ELSE SliceArray(buf, PySliceTo(buf.h, cp.point[1]), <<0, buf.w>>)
    ELSE IF cp.keep = "after"
         THEN SliceArray(buf, <<0, buf.h>>, PySliceFrom(buf.w, cp.point[2]))
         ELSE SliceArray(buf, <<0, buf.h>>, PySliceTo(buf.w, cp.point[2]))

\* apply_cropping with the slice of cropped_white left out.
apply_cropping_NoWhite(cps, k, b, crp, crp_white) ==
    [binary |-> ApplyCrop(b, cps[k]),
     cropped |-> ApplyCrop(crp, cps[k]),
     cropped_white |-> crp_white]

\* One iteration of apply_cropping's loop: the three buffers after corner k.
apply_cropping(cps, k, b, crp, crp_white) ==
    [binary |-> ApplyCrop(b, cps[k]),
     cropped |-> ApplyCrop(crp, cps[k]),
     cropped_white |-> ApplyCrop(crp_white, cps[k])]

\* show_image (src/src/utils.py): scale = min(max_width / width,
\* max_height / height, 1) divides by zero on an array without rows or columns.
show_image(img) == [raised |-> IsEmpty(img)]

\* plot_corner_discontinuity(binary) inside remove_lateral_blacks: the name is
\* bound to the parameter, and calling a bool raises TypeError.
CallRaises(callee) == callee \in BOOLEAN

\* apply_cropping's whole loop, from corner k on.
RECURSIVE ApplyAll(_, _, _, _, _)
ApplyAll(cps, k, b, crp, crp_white) ==
    IF k > Len(cps) THEN [binary |-> b, cropped |-> crp, cropped_white |-> crp_white]
    ELSE LET a == apply_cropping(cps, k, b, crp, crp_white)
         IN ApplyAll(cps, k + 1, a.binary, a.cropped, a.cropped_white)

\* Lines 49-55 of remove_lateral_blacks: the two diagnostics, then the return.
ReturnOf(crp_white, show, plot) ==
    IF plot /\ CallRaises(plot) THEN [raised |-> TRUE, value |-> NoArray]
    ELSE IF show /\ show_image(crp_white).raised THEN [raised |-> TRUE, value |-> NoArray]
    ELSE [raised |-> FALSE, value |-> crp_white]

\* remove_lateral_blacks(warped, warped_white, show_step_by_step,
\* plot_corner_discontinuity) as one call.
remove_lateral_blacks(wrp, wrp_white, show, plot) ==
    LET g1 == get_binary_edges(wrp)
        c  == crop_black_borders(wrp, wrp_white, g1.binary)
        g2 == get_binary_edges(c.cropped)
        a  == ApplyAll(navigate_edges(g2.binary, g2.edges), 1, g2.binary,
                       c.cropped, c.cropped_white)
    IN IF g1.raised THEN [raised |-> TRUE, value |-> NoArray]
       ELSE IF show /\ show_image(c.cropped).raised THEN [raised |-> TRUE, value |-> NoArray]
       ELSE IF g2.raised THEN [raised |-> TRUE, value |-> NoArray]
       ELSE ReturnOf(a.cropped_white, show, plot)

\* ---------------------------------------------------------------------------
\* Values of the pipeline.  An image is described by the scene it shows: a
\* frame of width `frame` at gray level `border` around a centre at gray
\* level `center`, sh x sw pixels; an array is the window of h x w pixels at
\* (r0, c0) of its scene.  A binary mask has the same two regions with values
\* in {0, 255}.
\* ---------------------------------------------------------------------------
DimChoices == {1, 2, 19, 20}
FrameChoices == {2, 5}
LevelChoices == {0, 40, 200}
BorderChoices == {-10, -1, 0, 2}

NoneValue == [kind |-> "None"]

ImageFiles ==
    [readable : BOOLEAN, sh : DimChoices, sw : DimChoices, ch : {1, 3},
     frame : FrameChoices, border : LevelChoices, center : LevelChoices]

ArrayOf(f) ==
    [kind |-> "array", sh |-> f.sh, sw |-> f.sw, ch |-> f.ch, frame |-> f.frame,
     border |-> f.border, center |-> f.center, r0 |-> 0, c0 |-> 0,
     h |-> f.sh, w |-> f.sw]

MaskOf(h, w, frame, border, center) ==
    [kind |-> "mask", h |-> h, w |-> w, frame |-> frame, border |-> border,
     center |-> center]

\* a[r0:r1, c0:c1] of an array descriptor, for Python slice bounds.
SliceDescr(a, rlo, rhi, clo, chi) ==
    LET rs == PySlice(a.h, rlo, rhi)
        cs == PySlice(a.w, clo, chi)
    IN [a EXCEPT !.r0 = a.r0 + rs[1], !.c0 = a.c0 + cs[1],
                 !.h = rs[2] - rs[1], !.w = cs[2] - cs[1]]

\* np.zeros_like(a)
ZerosLike(a) == [a EXCEPT !.border = 0, !.center = 0]

IsArray(v) == v.kind = "array"
EmptyDescr(v) == v.h = 0 \/ v.w = 0

\* ---------------------------------------------------------------------------
\* src/src/utils.py
\* ---------------------------------------------------------------------------
\* cv2.imread gives None for a file it cannot decode.
load_image(f) == IF f.readable THEN ArrayOf(f) ELSE NoneValue

\* save_outputs up to the write of output_path_tiff (original_path is not
\* passed by process_tiff, so the cv2.imwrite branch runs; cv2.imwrite
\* rejects an empty array).
save_outputs(original, processed, cp) ==
    LET p == IF cp THEN ZerosLike(original) ELSE processed
    IN IF EmptyDescr(p) THEN [raised |-> TRUE, written |-> NoneValue]
       ELSE [raised |-> FALSE, written |-> p]

\* ---------------------------------------------------------------------------
\* src/src/preprocess.py
\* ---------------------------------------------------------------------------
\* BlurKernel without the rounding to an odd side.
BlurKernel_Even(min_dim) == Min(Max(3, min_dim \div 50), 51)

\* k = max(3, int((min_dim / 50) // 2 * 2 + 1)); k = min(k, 51)
BlurKernel(min_dim) == Min(Max(3, ((min_dim \div 50) \div 2) * 2 + 1), 51)

\* border = int(min_dim * 0.05); center = int(min_dim * 0.1) // 2
BorderBand(min_dim) == (min_dim * 5) \div 100
CenterHalf(min_dim) == ((min_dim * 1) \div 10) \div 2

\* Lines 32-58 of estimate_threshold_and_border_rgb for an h x w image: the
\* two sizes, the rows and columns each slice covers, and whether
\* int(np.clip(..)) raises because the centre's mean is taken over no pixel.
Patches(h, w) ==
    LET border == BorderBand(Min(h, w))
        center == CenterHalf(Min(h, w))
        cx == w \div 2
        cy == h \div 2
        crows == PySlice(h, cy - center, cy + center)
        ccols == PySlice(w, cx - center, cx + center)
    IN [border |-> border, center |-> center,
        top |-> PySliceTo(h, border), bottom |-> PySliceFrom(h, -border),
        left |-> PySliceTo(w, border), right |-> PySliceFrom(w, -border),
        center_rows |-> crows, center_cols |-> ccols,
        raised |-> (crows[2] = crows[1] \/ ccols[2] = ccols[1])]

\* int(np.clip(border_gray + (center_mean - border_gray) * 0.6, 0, 255))
ThresholdVal(border_gray, center_mean) ==
    Min(Max((10 * border_gray + 6 * (center_mean - border_gray)) \div 10, 0), 255)

\* ThresholdBinary with the inverse flag.
ThresholdBinary_Inverse(g, t) == IF g > t THEN 0 ELSE 255

\* cv2.threshold(blurred, threshold_val, 255, cv2.THRESH_BINARY) on one pixel.
ThresholdBinary(g, t) == IF g > t THEN 255 ELSE 0

\* estimate_threshold_and_border_rgb: the mean of the empty central patch of
\* an image whose min dimension is under 20 is NaN, and int(NaN) raises.
estimate_threshold_and_border_rgb(img) ==
    IF CenterHalf(Min(img.h, img.w)) = 0
    THEN [raised |-> TRUE, threshold_val |-> 0, border_rgb |-> <<0, 0, 0>>]
    ELSE [raised |-> FALSE,
          threshold_val |-> ThresholdVal(img.border, img.center),
          border_rgb |-> <<img.border, img.border, img.border>>]

\* preprocess_image returns the pair (thresh, border_rgb).  cv2.cvtColor
\* raises on None and on a single-channel array.
preprocess_image(img) ==
    IF ~IsArray(img) THEN [raised |-> TRUE, value |-> NoneValue]
    ELSE IF img.ch # 3 THEN [raised |-> TRUE, value |-> NoneValue]
    ELSE LET e == estimate_threshold_and_border_rgb(img)
         IN IF e.raised THEN [raised |-> TRUE, value |-> NoneValue]
            ELSE [raised |-> FALSE,
                  value |-> [kind |-> "tuple",
                             items |-> <<MaskOf(img.h, img.w, img.frame,
                                                ThresholdBinary(img.border, e.threshold_val),
                                                ThresholdBinary(img.center, e.threshold_val)),
                                         e.border_rgb>>]]

\* ---------------------------------------------------------------------------
\* src/src/detect.py
\* ---------------------------------------------------------------------------
\* Two iterations of a 5x5 dilation grow a region by 4 pixels on every side.
DilateReach == 4

HasCenter(m) == m.h > 2 * m.frame /\ m.w > 2 * m.frame

\* cv2.dilate then cv2.findContours(RETR_EXTERNAL, CHAIN_APPROX_SIMPLE): the
\* outer boundaries of the 255-regions, each by its bounding box.  A frame of
\* 255 (with or without its centre) has the image outline as outer boundary.
Contours(m) ==
    IF m.border = 255
    THEN << [x |-> 0, y |-> 0, bw |-> m.w, bh |-> m.h] >>
    ELSE IF m.center = 255 /\ HasCenter(m)
    THEN LET x0 == Max(0, m.frame - DilateReach)
             y0 == Max(0, m.frame - DilateReach)
             x1 == Min(m.w, m.w - m.frame + DilateReach)
             y1 == Min(m.h, m.h - m.frame + DilateReach)
         IN << [x |-> x0, y |-> y0, bw |-> x1 - x0, bh |-> y1 - y0] >>
    ELSE << >>

\* cv2.contourArea of a box outline through its corner pixels.
ContourArea(c) == (c.bw - 1) * (c.bh - 1)

\* sorted(contours, key=cv2.contourArea, reverse=True): a stable sort.
RECURSIVE InsertByArea(_, _)
InsertByArea(c, sorted) ==
    IF sorted = << >> THEN << c >>
    ELSE IF ContourArea(Head(sorted)) >= ContourArea(c)
    THEN << Head(sorted) >> \o InsertByArea(c, Tail(sorted))
    ELSE << c >> \o sorted

RECURSIVE SortByArea(_)
SortByArea(cs) ==
    IF cs = << >> THEN << >>
    ELSE InsertByArea(Head(cs), SortByArea(Tail(cs)))

\* len(cv2.approxPolyDP(contour, 0.02 * arcLength, True)) for a box outline
\* with sides s and l: a point, a segment, or the four corners, which survive
\* when they lie further than epsilon = 0.04 (s + l) from the diagonal.
ApproxLen(c) ==
    LET s == c.bw - 1
        l == c.bh - 1
    IN IF s = 0 /\ l = 0 THEN 1
       ELSE IF s = 0 \/ l = 0 THEN 2
       ELSE IF 625 * s * s * l * l > (s + l) * (s + l) * (s * s + l * l) THEN 4
       ELSE 2

\* for contour in contours: ... if len(approx) >= 4: return approx
RECURSIVE FirstPageLike(_)
FirstPageLike(cs) ==
    IF cs = << >> THEN NoneValue
    ELSE IF ApproxLen(Head(cs)) >= 4
    THEN [kind |-> "contour", x |-> Head(cs).x, y |-> Head(cs).y,
          bw |-> Head(cs).bw, bh |-> Head(cs).bh, n |-> ApproxLen(Head(cs))]
    ELSE FirstPageLike(Tail(cs))

\* find_page_contour(thresh): cv2.dilate raises on anything but an array.
find_page_contour(th) ==
    IF th.kind # "mask" THEN [raised |-> TRUE, value |-> NoneValue]
    ELSE [raised |-> FALSE, value |-> FirstPageLike(SortByArea(Contours(th)))]

\* ---------------------------------------------------------------------------
\* src/src/transform.py, for an axis-aligned contour: minAreaRect reports a
\* multiple of 90 degrees, the normalised rotation is 0, the canvas keeps the
\* image's size and the rotated box is the box.
\* ---------------------------------------------------------------------------
warp_image(img, contour, b) ==
    LET x0 == Max(0, contour.x - b)
        y0 == Max(0, contour.y - b)
        h0 == contour.bh + b * 2
        w0 == contour.bw + b * 2
        x  == Max(0, contour.x - b)
        y  == Max(0, contour.y - b)
        w  == contour.bw + b * 2
        h  == contour.bh + b * 2
    IN [cropped |-> SliceDescr(img, y, y + h, x, x + w),
        crop_no_rotation |-> SliceDescr(img, y0, y0 + h0, x0, x0 + w0),
        bbox |-> [x |-> x, y |-> y, w |-> w, h |-> h]]

\* ---------------------------------------------------------------------------
\* src/edge_detection.py
\* ---------------------------------------------------------------------------
\* border_value=(0, 0, 0): the default of warp_image's parameter.
DefaultBorderValue == <<0, 0, 0>>

\* The border fill of the call at line 59, warp_image(image, page_contour,
\* border_pixels, show_step_by_step): border_value is not passed.
BorderValueOfCall == DefaultBorderValue

\* Lines 53-59 of process_tiff: the branch on page_contour.
BranchOf(img, contour, b) ==
    IF contour.kind = "None"
    THEN [copied |-> TRUE, warped |-> img, stages |-> << "REGION_MISSING" >>,
          border_value |-> NoneValue]
    ELSE [copied |-> FALSE, warped |-> warp_image(img, contour, b).cropped,
          stages |-> << "REGION_DETECTED", "WARPED" >>,
          border_value |-> BorderValueOfCall]

\* image = load_image(image_path)
LoadImage ==
    /\ pt_pc = "start"
    /\ image' = load_image(image_file)
    /\ pt_trace' = << "LOADED" >>
    /\ pt_pc' = "loaded"
    /\ UNCHANGED <<image_file, border_pixels, thresh, page_contour, copied,
                   pt_warped, written, border_value>>
    /\ UNCHANGED <<cropVars, mainVars, warpVars, fnVars>>

\* thresh = preprocess_image(image, show_step_by_step)
PreprocessImage ==
    /\ pt_pc = "loaded"
    /\ LET r == preprocess_image(image)
       IN /\ thresh' = r.value
          /\ pt_trace' = IF r.raised THEN pt_trace ELSE Append(pt_trace, "BINARIZED")
          /\ pt_pc' = IF r.raised THEN "raised" ELSE "binarized"
    /\ UNCHANGED <<image_file, border_pixels, image, page_contour, copied,
                   pt_warped, written, border_value>>
    /\ UNCHANGED <<cropVars, mainVars, warpVars, fnVars>>

\* Lines 52-64 of process_tiff, from the call of find_page_contour to the
\* return: nothing else runs in between.
DetectAndFinish ==
    /\ pt_pc = "binarized"
    /\ LET d == find_page_contour(thresh)
           br == BranchOf(image, d.value, border_pixels)
           sv == save_outputs(image, br.warped, br.copied)
       IN IF d.raised
          THEN /\ pt_pc' = "raised"
               /\ UNCHANGED <<page_contour, copied, pt_warped, written, pt_trace,
                              border_value>>
          ELSE /\ page_contour' = d.value
               /\ copied' = br.copied
               /\ border_value' = br.border_value
               /\ pt_warped' = br.warped
               /\ written' = sv.written
               /\ pt_trace' = IF sv.raised THEN pt_trace \o br.stages
                              ELSE pt_trace \o br.stages \o << "SAVED" >>
               /\ pt_pc' = IF sv.raised THEN "raised" ELSE "saved"
    /\ UNCHANGED <<image_file, border_pixels, image, thresh>>
    /\ UNCHANGED <<cropVars, mainVars, warpVars, fnVars>>

\* ---- the same stages, each called with a binary mask as `thresh` ----
\* page_contour = find_page_contour(thresh, show_step_by_step)
FindPageContour ==
    /\ pt_pc = "detect"
    /\ LET d == find_page_contour(thresh)
       IN /\ page_contour' = d.value
          /\ pt_pc' = IF d.raised THEN "raised" ELSE "branch"
    /\ UNCHANGED <<image_file, border_pixels, image, thresh, copied, pt_warped,
                   written, pt_trace, border_value>>
    /\ UNCHANGED <<cropVars, mainVars, warpVars, fnVars>>

\* copied = False; if page_contour is None: ... else: warped, _ = warp_image(..)
BranchOnContour ==
    /\ pt_pc = "branch"
    /\ LET br == BranchOf(image, page_contour, border_pixels)
       IN /\ copied' = br.copied
          /\ pt_warped' = br.warped
          /\ border_value' = br.border_value
          /\ pt_trace' = pt_trace \o br.stages
    /\ pt_pc' = "save"
    /\ UNCHANGED <<image_file, border_pixels, image, thresh, page_contour, written>>
    /\ UNCHANGED <<cropVars, mainVars, warpVars, fnVars>>

\* thumbnail = save_outputs(image, warped, ..., copied=copied)
SaveOutputs ==
    /\ pt_pc = "save"
    /\ LET sv == save_outputs(image, pt_warped, copied)
       IN /\ written' = sv.written
          /\ pt_trace' = IF sv.raised THEN pt_trace ELSE Append(pt_trace, "SAVED")
          /\ pt_pc' = IF sv.raised THEN "raised" ELSE "saved"
    /\ UNCHANGED <<image_file, border_pixels, image, thresh, page_contour, copied,
                   pt_warped, border_value>>
    /\ UNCHANGED <<cropVars, mainVars, warpVars, fnVars>>

\* ---------------------------------------------------------------------------
\* src/main.py and src/src/spinner.py
\* ---------------------------------------------------------------------------
\* The parameters process_tiff declares, and the keywords main passes besides
\* the two positional arguments.
ProcessTiffParams ==
    {"image_path", "output_path_tiff", "output_path_thumb", "border_pixels",
     "show_step_by_step", "show_before_after"}
MainCallKeywords ==
    {"output_path_thumb", "border_pixels", "show_step_by_step",
     "show_before_after", "use_compression"}

\* Python binds a call only when every keyword names a parameter.
CallBinds(keywords, params) == keywords \subseteq params

\* Whether a whole run of process_tiff's body on a file raises.
ProcessTiffRaises(f, b) ==
    LET img == load_image(f)
        p == preprocess_image(img)
        d == find_page_contour(p.value)
        br == BranchOf(img, d.value, b)
    IN \/ p.raised
       \/ d.raised
       \/ save_outputs(img, br.warped, br.copied).raised

ValidFormats == {"tif", "tiff", "jpg", "jpeg"}
FormatChoices == {"none", "tif", "bmp"}

\* What main finds in the quality directory after one image.
QualityChoices == {"absent", "preserved", "not_preserved"}

BatchFileChoices ==
    {f \in ImageFiles : f.sh = 20 /\ f.sw = 20 /\ f.ch = 3 /\ f.frame = 5
                        /\ f.border = 0 /\ f.center = 200}

RECURSIVE SeqsUpTo(_, _)
SeqsUpTo(S, n) ==
    IF n = 0 THEN {<< >>}
    ELSE SeqsUpTo(S, n - 1) \cup
         {Append(q, x) : q \in {r \in SeqsUpTo(S, n - 1) : Len(r) = n - 1}, x \in S}

\* Lines 107-119 with "status": "completed".
InitialInfo_Completed(total_files) ==
    [total_images |-> total_files, processed |-> 0,
     successful_metadata_preservation |-> 0,
     failed_metadata_preservation |-> 0,
     status |-> "completed"]

\* Lines 107-119: the counters and the status of the initial info_data.
InitialInfo(total_files) ==
    [total_images |-> total_files, processed |-> 0,
     successful_metadata_preservation |-> 0,
     failed_metadata_preservation |-> 0,
     status |-> "processing"]

\* Lines 152-175: the counters after image i (from 0) with what the quality
\* directory holds.
IterationInfo(info, i, q) ==
    [info EXCEPT
       !.successful_metadata_preservation = IF q = "preserved" THEN @ + 1 ELSE @,
       !.failed_metadata_preservation = IF q = "not_preserved" THEN @ + 1 ELSE @,
       !.processed = i + 1]

\* Lines 186-191: info_data["status"] = "completed"
FinalInfo(info) == [info EXCEPT !.status = "completed"]

\* Lines 69-126: the format check, the scan and the initial info.json.
MainSetup ==
    /\ m_pc = "start"
    /\ IF image_input_format # "none" /\ image_input_format \notin ValidFormats
       THEN /\ m_exc' = "ValueError"
            /\ m_pc' = "raised"
            /\ UNCHANGED <<info_data, info_json>>
       ELSE /\ info_data' = InitialInfo(Len(image_files))
            /\ info_json' = info_data'
            /\ m_pc' = "spinner"
            /\ UNCHANGED m_exc
    /\ UNCHANGED <<image_files, image_input_format, verbose, attempted, m_i,
                   stop_event, sp_idx, sp_thread>>
    /\ UNCHANGED <<cropVars, tiffVars, warpVars, fnVars>>

\* Lines 129-131: if verbose: spinner = Spinner(total_files); spinner.start()
MainStartSpinner ==
    /\ m_pc = "spinner"
    /\ sp_thread' = IF verbose THEN "running" ELSE sp_thread
    /\ m_pc' = "loop"
    /\ UNCHANGED <<image_files, image_input_format, verbose, info_data, info_json,
                   attempted, m_i, m_exc, stop_event, sp_idx>>
    /\ UNCHANGED <<cropVars, tiffVars, warpVars, fnVars>>

\* Lines 134-176: one iteration of the batch loop.  There is no try around
\* the call of process_tiff: what it raises ends main.
MainIteration ==
    /\ m_pc = "loop"
    /\ m_i < Len(image_files)
    /\ attempted' = attempted \cup {m_i + 1}
    /\ IF ~CallBinds(MainCallKeywords, ProcessTiffParams)
       THEN /\ m_exc' = "TypeError"
            /\ m_pc' = "raised"
            /\ UNCHANGED <<info_data, info_json, m_i>>
       ELSE IF ProcessTiffRaises(image_files[m_i + 1], border_pixels)
       THEN /\ m_exc' = "error"
            /\ m_pc' = "raised"
            /\ UNCHANGED <<info_data, info_json, m_i>>
       ELSE \E q \in QualityChoices :
            /\ info_data' = IterationInfo(info_data, m_i, q)
            /\ info_json' = info_data'
            /\ m_i' = m_i + 1
            /\ UNCHANGED <<m_exc, m_pc>>
    /\ UNCHANGED <<image_files, image_input_format, verbose, stop_event, sp_idx,
                   sp_thread>>
    /\ UNCHANGED <<cropVars, tiffVars, warpVars, fnVars>>

\* Lines 179-180: if verbose: spinner.stop(), which sets the event and joins.
MainStopSpinner ==
    /\ m_pc = "loop"
    /\ m_i >= Len(image_files)
    /\ stop_event' = IF verbose THEN TRUE ELSE stop_event
    /\ m_pc' = IF verbose THEN "joining" ELSE "finalize"
    /\ UNCHANGED <<image_files, image_input_format, verbose, info_data, info_json,
                   attempted, m_i, m_exc, sp_idx, sp_thread>>
    /\ UNCHANGED <<cropVars, tiffVars, warpVars, fnVars>>

\* self.spinner_thread.join() returns once the thread has ended.
MainJoinSpinner ==
    /\ m_pc = "joining"
    /\ sp_thread = "exited"
    /\ m_pc' = "finalize"
    /\ UNCHANGED <<image_files, image_input_format, verbose, info_data, info_json,
                   attempted, m_i, m_exc, stop_event, sp_idx, sp_thread>>
    /\ UNCHANGED <<cropVars, tiffVars, warpVars, fnVars>>

\* Lines 183-196: the final info.json.
MainFinalize ==
    /\ m_pc = "finalize"
    /\ info_data' = FinalInfo(info_data)
    /\ info_json' = info_data'
    /\ m_pc' = "done"
    /\ UNCHANGED <<image_files, image_input_format, verbose, attempted, m_i, m_exc,
                   stop_event, sp_idx, sp_thread>>
    /\ UNCHANGED <<cropVars, tiffVars, warpVars, fnVars>>

\* One pass of `while not self.stop_event.is_set()` in _spinner_task.
SpinnerTick ==
    /\ sp_thread = "running"
    /\ IF stop_event
       THEN /\ sp_thread' = "exited"
            /\ UNCHANGED sp_idx
       ELSE /\ sp_idx < MaxSpinTicks
            /\ sp_idx' = sp_idx + 1
            /\ UNCHANGED sp_thread
    /\ UNCHANGED <<image_files, image_input_format, verbose, info_data, info_json,
                   attempted, m_i, m_exc, m_pc, stop_event>>
    /\ UNCHANGED <<cropVars, tiffVars, warpVars, fnVars>>

\* ---------------------------------------------------------------------------
\* The two thresholds and the blur kernel, one call at a time
\* ---------------------------------------------------------------------------
GrayChoices == {0, 1, 49, 50, 51, 52, 127, 128, 254, 255}
ThresholdChoices == {0, 49, 50, 51, 128, 254, 255}

\* preprocess_image line 95 on one blurred pixel of gray level g.
BinarizerThreshold ==
    /\ fn_pc = "call"
    /\ fn_arg.op = "threshold"
    /\ fn_res' = [binarizer |-> ThresholdBinary(fn_arg.g, fn_arg.t)]
    /\ fn_pc' = "binarized"
    /\ UNCHANGED fn_arg
    /\ UNCHANGED <<cropVars, tiffVars, mainVars, warpVars>>

\* get_binary_edges lines 194-200 on one pixel of the same gray level.
RefinerThreshold ==
    /\ fn_pc = "binarized"
    /\ fn_res' = [binarizer |-> fn_res.binarizer,
                  refiner |-> ThresholdBinaryInv(BGR2GRAY(<<fn_arg.g, fn_arg.g, fn_arg.g>>))]
    /\ fn_pc' = "done"
    /\ UNCHANGED fn_arg
    /\ UNCHANGED <<cropVars, tiffVars, mainVars, warpVars>>

\* preprocess_image lines 86-88.
ChooseBlurKernel ==
    /\ fn_pc = "call"
    /\ fn_arg.op = "blur"
    /\ fn_res' = BlurKernel(fn_arg.min_dim)
    /\ fn_pc' = "done"
    /\ UNCHANGED fn_arg
    /\ UNCHANGED <<cropVars, tiffVars, mainVars, warpVars>>

\* ---------------------------------------------------------------------------
\* warp_image (src/src/transform.py), step by step, also for a rotated page.
\* A page contour is the rectangle with corners p0, p0 + a d, p0 + a d + bb n
\* and p0 + bb n, with n = (-d[2], d[1]); d is (1, 0) for an upright page and
\* (4, 3) or (3, 4) for a rotated one, so that the cosine and the sine of the
\* rotation are exact fifths.  Coordinates that are not integers are held in
\* tenths of a pixel.  The code computes them in floating point: where the
\* exact value is an integer and the rotation is not a multiple of 90 degrees,
\* a truncation or a floor can land on either side of it.
\* ---------------------------------------------------------------------------
RotatedImage == [h |-> 30, w |-> 41]

WarpImages == [h : 3..MaxWarpDim, w : 3..MaxWarpDim] \cup {RotatedImage}

Corners(c) ==
    LET n == <<-c.d[2], c.d[1]>>
        p1 == <<c.p0[1] + c.a * c.d[1], c.p0[2] + c.a * c.d[2]>>
    IN << c.p0, p1,
          <<p1[1] + c.bb * n[1], p1[2] + c.bb * n[2]>>,
          <<c.p0[1] + c.bb * n[1], c.p0[2] + c.bb * n[2]>> >>

InsideImage(img, c) ==
    \A i \in 1..4 : /\ Corners(c)[i][1] \in 0..(img.w - 1)
                    /\ Corners(c)[i][2] \in 0..(img.h - 1)

UprightContours(img) ==
    {c \in [p0 : (0..(img.w - 1)) \X (0..(img.h - 1)), d : {<<1, 0>>},
            a : 1..(img.w - 1), bb : 1..(img.h - 1)] : InsideImage(img, c)}

RotatedContours ==
    {[p0 |-> <<3, 0>>, d |-> <<4, 3>>, a |-> 8, bb |-> 1],
     [p0 |-> <<6, 2>>, d |-> <<4, 3>>, a |-> 5, bb |-> 2],
     [p0 |-> <<4, 0>>, d |-> <<3, 4>>, a |-> 6, bb |-> 1],
     [p0 |-> <<12, 3>>, d |-> <<3, 4>>, a |-> 4, bb |-> 3]}

WarpContours(img) ==
    IF img = RotatedImage THEN {c \in RotatedContours : InsideImage(img, c)}
    ELSE UprightContours(img)

\* An angle in hundredths of a degree, with five times its cosine and sine.
AngleOf(d) ==
    IF d = <<1, 0>> THEN [deg100 |-> 9000, c5 |-> 0, s5 |-> 5]
    ELSE IF d = <<4, 3>> THEN [deg100 |-> 3687, c5 |-> 4, s5 |-> 3]
    ELSE [deg100 |-> 5313, c5 |-> 3, s5 |-> 4]

\* Sines and cosines of a multiple of 90 degrees are exact in floating point
\* up to terms far below the truncation step.
IsExact(ang) == ang.c5 = 0 \/ ang.s5 = 0

\* cv2.minAreaRect(page_contour): the centre (doubled), the side along the
\* direction of `angle` as width, the other side as height, and the angle in
\* (0, 90] of the side that points into the first quadrant; an upright
\* rectangle is reported at 90 degrees with its vertical side as width.
minAreaRect(c) ==
    LET cs == Corners(c)
        len == IF c.d = <<1, 0>> THEN 1 ELSE 5
    IN [cx2 |-> cs[1][1] + cs[3][1], cy2 |-> cs[1][2] + cs[3][2],
        w |-> IF c.d = <<1, 0>> THEN c.bb ELSE len * c.a,
        h |-> IF c.d = <<1, 0>> THEN c.a ELSE len * c.bb,
        angle |-> AngleOf(c.d)]

\* Lines 32-34 without the subtraction.
NormaliseDegrees_NoSubtract(deg100) == -deg100

\* if angle > 80: angle -= 90; angle = -angle, on hundredths of a degree.
NormaliseDegrees(deg100) == -(IF deg100 > 8000 THEN deg100 - 9000 ELSE deg100)

\* The same lines on an angle held with its cosine and sine.
NormaliseAngle(ang) ==
    LET t == IF ang.deg100 > 8000
             THEN [c5 |-> ang.s5, s5 |-> -ang.c5]
             ELSE [c5 |-> ang.c5, s5 |-> ang.s5]
    IN [deg100 |-> NormaliseDegrees(ang.deg100), c5 |-> t.c5, s5 |-> -t.s5]

\* The angles cv2.minAreaRect reports, in hundredths of a degree: (0, 90]
\* since OpenCV 4.5.1 and [-90, 0) before.
ReportedAngles == (1..9000) \cup (-9000..-1)

\* -angle, the argument of getRotationMatrix2D
Negate(ang) == [deg100 |-> -ang.deg100, c5 |-> ang.c5, s5 |-> -ang.s5]

\* cv2.boxPoints(rect), in tenths: with a = sin/2 and b = cos/2,
\* pt0 = (cx - a h - b w, cy + b h - a w), pt1 = (cx + a h - b w,
\* cy - b h - a w), pt2 = 2 c - pt0, pt3 = 2 c - pt1.
boxPoints(r) ==
    LET c == r.angle.c5
        s == r.angle.s5
        p0 == <<5 * r.cx2 - s * r.h - c * r.w, 5 * r.cy2 + c * r.h - s * r.w>>
        p1 == <<5 * r.cx2 + s * r.h - c * r.w, 5 * r.cy2 - c * r.h - s * r.w>>
    IN << p0, p1, <<10 * r.cx2 - p0[1], 10 * r.cy2 - p0[2]>>,
          <<10 * r.cx2 - p1[1], 10 * r.cy2 - p1[2]>> >>

\* np.intp of a float whose exact value is v10 / 10: truncation towards zero.
IntpOutcomes(v10, exact) ==
    LET q == v10 \div 10
    IN IF v10 % 10 # 0 THEN {IF v10 < 0 THEN q + 1 ELSE q}
       ELSE IF exact \/ q = 0 THEN {q}
       ELSE IF q > 0 THEN {q - 1, q}
       ELSE {q, q + 1}

\* cvFloor of a float whose exact value is v10 / 10.
FloorOutcomes(v10, exact) ==
    LET q == v10 \div 10
    IN IF v10 % 10 # 0 \/ exact THEN {q} ELSE {q - 1, q}

\* int() of a positive float whose exact value is v5 / 5.
IntOutcomes(v5, exact) ==
    LET q == v5 \div 5
    IN IF v5 % 5 # 0 \/ exact THEN {q} ELSE {q - 1, q}

\* np.intp(cv2.boxPoints(rect)): the values the four points can take.
BoxOutcomes(r) ==
    LET P == boxPoints(r)
        O(i, j) == IntpOutcomes(P[i][j], IsExact(r.angle))
    IN {<< <<t[1], t[2]>>, <<t[3], t[4]>>, <<t[5], t[6]>>, <<t[7], t[8]>> >> :
          t \in O(1, 1) \X O(1, 2) \X O(2, 1) \X O(2, 2)
                \X O(3, 1) \X O(3, 2) \X O(4, 1) \X O(4, 2)}

\* cv2.boundingRect of integer points.
boundingRect(pts) ==
    LET xs == {pts[i][1] : i \in 1..Len(pts)}
        ys == {pts[i][2] : i \in 1..Len(pts)}
    IN [x |-> MinOf(xs), y |-> MinOf(ys),
        w |-> MaxOf(xs) - MinOf(xs) + 1, h |-> MaxOf(ys) - MinOf(ys) + 1]

\* buf[y:y+h, x:x+w] as the rows and columns it covers.
Window(buf, y, h, x, w) ==
    [rows |-> PySlice(buf.h, y, y + h), cols |-> PySlice(buf.w, x, x + w)]

\* Lines 39-44 without the doubling of the margin.
ReferenceCrop_NoMargin(img, bx, b) ==
    LET r == boundingRect(bx)
    IN Window(img, Max(0, r.y - b), r.h, Max(0, r.x - b), r.w)

\* Lines 39-44: x0 = max(0, int(x0 - b)); h0 += int(b * 2); image[y0:y0+h0, ..]
ReferenceCrop(img, bx, b) ==
    LET r == boundingRect(bx)
    IN Window(img, Max(0, r.y - b), r.h + b * 2, Max(0, r.x - b), r.w + b * 2)

\* cv2.getRotationMatrix2D(center_box, -angle, 1.0): [[al, be, (1 - al) cx -
\* be cy], [-be, al, be cx + (1 - al) cy]], al = c5 / 5 and be = s5 / 5, the
\* translation in tenths.
getRotationMatrix2D(r, ang) ==
    [c5 |-> ang.c5, s5 |-> ang.s5,
     tx10 |-> (5 - ang.c5) * r.cx2 - ang.s5 * r.cy2,
     ty10 |-> ang.s5 * r.cx2 + (5 - ang.c5) * r.cy2]

\* Lines 51-54: new_w = int(h sin + w cos), new_h = int(h cos + w sin).
CanvasOutcomes(img, m) ==
    LET ex == m.c5 = 0 \/ m.s5 = 0
    IN {[h |-> nh, w |-> nw] :
          nw \in IntOutcomes(img.h * Abs(m.s5) + img.w * Abs(m.c5), ex),
          nh \in IntOutcomes(img.h * Abs(m.c5) + img.w * Abs(m.s5), ex)}

\* Lines 57-58: M[0, 2] += (new_w - w) / 2; M[1, 2] += (new_h - h) / 2
Recentre(m, img, canvas) ==
    [m EXCEPT !.tx10 = @ + 5 * (canvas.w - img.w),
              !.ty10 = @ + 5 * (canvas.h - img.h)]

\* cv2.transform(np.array([box], dtype="float32"), M)[0], in tenths.
transform(bx, m) ==
    [i \in 1..Len(bx) |->
        <<2 * m.c5 * bx[i][1] + 2 * m.s5 * bx[i][2] + m.tx10,
          2 * m.c5 * bx[i][2] - 2 * m.s5 * bx[i][1] + m.ty10>>]

\* cv2.boundingRect of float points: cvFloor of the least and of the greatest
\* coordinate, and width = xmax - xmin + 1.
FloatBoundingRects(pts, exact) ==
    LET xs == {pts[i][1] : i \in 1..Len(pts)}
        ys == {pts[i][2] : i \in 1..Len(pts)}
    IN {[x |-> x0, y |-> y0, w |-> x1 - x0 + 1, h |-> y1 - y0 + 1] :
          x0 \in FloorOutcomes(MinOf(xs), exact),
          x1 \in FloorOutcomes(MaxOf(xs), exact),
          y0 \in FloorOutcomes(MinOf(ys), exact),
          y1 \in FloorOutcomes(MaxOf(ys), exact)}

\* Lines 88-92: x = max(0, int(x - b)); w += int(b * 2); rotated_np[y:y+h, ..]
CorrectedCrop(canvas, r, b) ==
    Window(canvas, Max(0, r.y - b), r.h + b * 2, Max(0, r.x - b), r.w + b * 2)

\* rect = cv2.minAreaRect(page_contour); ... angle = -angle
MinAreaRectAndAngle ==
    /\ w_pc = "call"
    /\ rect' = minAreaRect(w_contour)
    /\ angle' = NormaliseAngle(minAreaRect(w_contour).angle)
    /\ w_pc' = "box"
    /\ UNCHANGED <<w_image, w_contour, w_border, box, crop_no_rotation, M,
                   rotated_np, rotated_box, bounding_rect, w_cropped>>
    /\ UNCHANGED <<cropVars, tiffVars, mainVars, fnVars>>

\* box = np.intp(cv2.boxPoints(rect)); ...; crop_no_rotation = image[...]
CropNoRotation ==
    /\ w_pc = "box"
    /\ \E bx \in BoxOutcomes(rect) :
          /\ box' = bx
          /\ crop_no_rotation' = ReferenceCrop(w_image, bx, w_border)
    /\ w_pc' = "rotate"
    /\ UNCHANGED <<w_image, w_contour, w_border, rect, angle, M, rotated_np,
                   rotated_box, bounding_rect, w_cropped>>
    /\ UNCHANGED <<cropVars, tiffVars, mainVars, fnVars>>

\* M = cv2.getRotationMatrix2D(...); new_w, new_h; M[.., 2] += ...;
\* rotated_np = cv2.warpAffine(image, M, (new_w, new_h), ...)
RotateImage ==
    /\ w_pc = "rotate"
    /\ LET m == getRotationMatrix2D(rect, Negate(angle))
       IN \E canvas \in CanvasOutcomes(w_image, m) :
             /\ M' = Recentre(m, w_image, canvas)
             /\ rotated_np' = canvas
    /\ w_pc' = "crop"
    /\ UNCHANGED <<w_image, w_contour, w_border, rect, angle, box,
                   crop_no_rotation, rotated_box, bounding_rect, w_cropped>>
    /\ UNCHANGED <<cropVars, tiffVars, mainVars, fnVars>>

\* rotated_box = cv2.transform(...); x, y, w, h = cv2.boundingRect(rotated_box);
\* ...; cropped = rotated_np[y:y+h, x:x+w]
CropRotated ==
    /\ w_pc = "crop"
    /\ rotated_box' = transform(box, M)
    /\ \E r \in FloatBoundingRects(transform(box, M), IsExact(angle)) :
          /\ bounding_rect' = r
          /\ w_cropped' = CorrectedCrop(rotated_np, r, w_border)
    /\ w_pc' = "return"
    /\ UNCHANGED <<w_image, w_contour, w_border, rect, angle, box,
                   crop_no_rotation, M, rotated_np>>
    /\ UNCHANGED <<cropVars, tiffVars, mainVars, fnVars>>

\* return cropped, crop_no_rotation (show_step_by_step is False)
ReturnWarp ==
    /\ w_pc = "return"
    /\ w_pc' = "returned"
    /\ UNCHANGED <<w_image, w_contour, w_border, rect, angle, box,
                   crop_no_rotation, M, rotated_np, rotated_box,
                   bounding_rect, w_cropped>>
    /\ UNCHANGED <<cropVars, tiffVars, mainVars, fnVars>>

\* estimate_threshold_and_border_rgb lines 32-62 on an image of a given shape.
EstimatePatches ==
    /\ fn_pc = "call"
    /\ fn_arg.op = "patches"
    /\ fn_res' = Patches(fn_arg.h, fn_arg.w)
    /\ fn_pc' = "done"
    /\ UNCHANGED fn_arg
    /\ UNCHANGED <<cropVars, tiffVars, mainVars, warpVars>>

\* warp_image lines 29-34 and the angle handed to getRotationMatrix2D at
\* line 47, for an angle minAreaRect reports.
NormaliseReportedAngle ==
    /\ fn_pc = "call"
    /\ fn_arg.op = "angle"
    /\ fn_res' = [angle |-> NormaliseDegrees(fn_arg.a),
                  rotation |-> -NormaliseDegrees(fn_arg.a)]
    /\ fn_pc' = "done"
    /\ UNCHANGED fn_arg
    /\ UNCHANGED <<cropVars, tiffVars, mainVars, warpVars>>

\* ---------------------------------------------------------------------------
\* remove_lateral_blacks, step by step
\* ---------------------------------------------------------------------------
\* binary, _ = get_binary_edges(warped, ...)
BinarizeWarped ==
    /\ rl_pc = "start"
    /\ LET g == get_binary_edges(warped)
       IN /\ binary' = g.binary
          /\ rl_pc' = IF g.raised THEN "raised" ELSE "scan"
    /\ UNCHANGED <<warped, warped_white, cropped, cropped_white, edges,
                   crop_points, rl_k, rl_run>>
    /\ UNCHANGED <<show_step_by_step, plot_corner_discontinuity>>
    /\ UNCHANGED <<tiffVars, mainVars, warpVars, fnVars>>

\* cropped, cropped_white = crop_black_borders(warped, warped_white, binary)
\* if show_step_by_step: show_image(cropped, ...)
CropBlackBorders ==
    /\ rl_pc = "scan"
    /\ LET c == crop_black_borders(warped, warped_white, binary)
       IN /\ cropped' = c.cropped
          /\ cropped_white' = c.cropped_white
          /\ rl_pc' = IF show_step_by_step /\ show_image(c.cropped).raised
                      THEN "raised" ELSE "rebinarize"
    /\ UNCHANGED <<warped, warped_white, binary, edges, crop_points, rl_k, rl_run>>
    /\ UNCHANGED <<show_step_by_step, plot_corner_discontinuity>>
    /\ UNCHANGED <<tiffVars, mainVars, warpVars, fnVars>>

\* binary, edges = get_binary_edges(cropped)
BinarizeCropped ==
    /\ rl_pc = "rebinarize"
    /\ LET g == get_binary_edges(cropped)
       IN /\ binary' = g.binary
          /\ edges' = g.edges
          /\ rl_pc' = IF g.raised THEN "raised" ELSE "navigate"
    /\ UNCHANGED <<warped, warped_white, cropped, cropped_white, crop_points,
                   rl_k, rl_run>>
    /\ UNCHANGED <<show_step_by_step, plot_corner_discontinuity>>
    /\ UNCHANGED <<tiffVars, mainVars, warpVars, fnVars>>

\* crop_points = navigate_edges(binary, edges)
NavigateEdges ==
    /\ rl_pc = "navigate"
    /\ crop_points' = navigate_edges(binary, edges)
    /\ rl_k' = 1
    /\ rl_pc' = "apply"
    /\ UNCHANGED <<warped, warped_white, binary, cropped, cropped_white, edges,
                   rl_run>>
    /\ UNCHANGED <<show_step_by_step, plot_corner_discontinuity>>
    /\ UNCHANGED <<tiffVars, mainVars, warpVars, fnVars>>

\* one iteration of `for edge_name, edge_data in edges.items()` in apply_cropping
ApplyCroppingStep ==
    /\ rl_pc = "apply"
    /\ rl_k <= Len(edges)
    /\ LET a == apply_cropping(crop_points, rl_k, binary, cropped, cropped_white)
       IN /\ binary' = a.binary
          /\ cropped' = a.cropped
          /\ cropped_white' = a.cropped_white
    /\ rl_k' = rl_k + 1
    /\ UNCHANGED <<warped, warped_white, edges, crop_points, rl_pc, rl_run>>
    /\ UNCHANGED <<show_step_by_step, plot_corner_discontinuity>>
    /\ UNCHANGED <<tiffVars, mainVars, warpVars, fnVars>>

\* if plot_corner_discontinuity: plot_corner_discontinuity(binary)
\* if show_step_by_step: show_image(cropped_white, ...)
\* return cropped_white
ReturnCroppedWhite ==
    /\ rl_pc = "apply"
    /\ rl_k > Len(edges)
    /\ rl_pc' = IF ReturnOf(cropped_white, show_step_by_step,
                            plot_corner_discontinuity).raised
                THEN "raised" ELSE "returned"
    /\ UNCHANGED <<warped, warped_white, binary, cropped, cropped_white, edges,
                   crop_points, rl_k, rl_run>>
    /\ UNCHANGED <<show_step_by_step, plot_corner_discontinuity>>
    /\ UNCHANGED <<tiffVars, mainVars, warpVars, fnVars>>

\* The caller runs remove_lateral_blacks again on the image it returned.
RefineAgain ==
    /\ rl_pc = "returned"
    /\ rl_run = 1
    /\ Shape(warped) = Shape(warped_white)
    /\ warped' = cropped_white
    /\ warped_white' = cropped_white
    /\ binary' = NoArray
    /\ cropped' = NoArray
    /\ cropped_white' = NoArray
    /\ edges' = <<>>
    /\ crop_points' = <<>>
    /\ rl_k' = 0
    /\ rl_pc' = "start"
    /\ rl_run' = 2
    /\ UNCHANGED <<show_step_by_step, plot_corner_discontinuity>>
    /\ UNCHANGED <<tiffVars, mainVars, warpVars, fnVars>>

\* ---------------------------------------------------------------------------
\* Properties
\* ---------------------------------------------------------------------------
InTrace(stage) == \E i \in 1..Len(pt_trace) : pt_trace[i] = stage

C2_BatchContinuesAfterFailure ==
    (m_pc \in {"done", "raised"} /\ attempted # {}) =>
        attempted = 1..Len(image_files)

BinarizerMask == IF thresh.kind = "tuple" THEN thresh.items[1] ELSE thresh

NoPageLikeContour(m) ==
    \A i \in 1..Len(Contours(m)) : ApproxLen(Contours(m)[i]) < 4

\* C4: when no contour of the mask has an approximation with 4 or more
\* vertices, the detection step does not raise and the run takes the
\* REGION_MISSING branch.
C4_NoRegionIsAValue ==
    (thresh.kind # "None" /\ pt_pc \in {"raised", "saved"}
        /\ NoPageLikeContour(BinarizerMask)) =>
        (page_contour.kind = "None" /\ InTrace("REGION_MISSING"))

\* C5: the region find_page_contour returns is never the outline of the whole
\* image.
C5_WholeImageRejected ==
    (pt_pc \in {"branch", "save", "saved", "raised"} /\ page_contour.kind = "contour") =>
        ~(page_contour.x = 0 /\ page_contour.y = 0
          /\ page_contour.bw = thresh.w /\ page_contour.bh = thresh.h)

\* The crop box of warp_image has no extent on some axis.
DegenerateCrop ==
    /\ page_contour.kind = "contour"
    /\ LET bb == warp_image(image, page_contour, border_pixels).bbox
       IN bb.w <= 0 \/ bb.h <= 0

NoBackgroundPixel(img) ==
    \A r \in 0..(img.h - 1) : \A c \in 0..(img.w - 1) : BinaryOf(img).px[r][c] = 0

\* C7: remove_lateral_blacks run on its own output returns an image of that
\* output's height and width, and an image with no background pixel is
\* returned with its dimensions unchanged.
C7_RefinerIdempotent ==
    /\ (rl_run = 2 /\ rl_pc \in {"returned", "raised"}) =>
          (rl_pc = "returned" /\ Shape(cropped_white) = Shape(warped))
    /\ (rl_run = 1 /\ rl_pc = "returned" /\ NoBackgroundPixel(warped)
          /\ Shape(warped) = Shape(warped_white)) =>
          Shape(cropped_white) = Shape(warped)

\* C8: for a fully-foreground input, both buffers crop_black_borders returns
\* have at least one row and one column.
C8_Pass1MinimumSize ==
    (rl_pc = "rebinarize" /\ NoBackgroundPixel(warped)
        /\ Shape(warped) = Shape(warped_white)) =>
        (cropped.h >= 1 /\ cropped.w >= 1
         /\ cropped_white.h >= 1 /\ cropped_white.w >= 1)

\* C9: after apply_cropping has applied every corner's crop, the buffers have
\* at least one row and one column.
C9_Pass2RangesNonEmpty ==
    (rl_pc = "apply" /\ rl_k > Len(edges)) =>
        /\ binary.h >= 1 /\ binary.w >= 1
        /\ cropped.h >= 1 /\ cropped.w >= 1
        /\ (Shape(warped) = Shape(warped_white)) =>
              (cropped_white.h >= 1 /\ cropped_white.w >= 1)

C12_DiagnosticsObservational ==
    (rl_run = 1 /\ rl_pc \in {"returned", "raised"}) =>
        LET off == remove_lateral_blacks(warped, warped_white, FALSE, FALSE)
        IN /\ (rl_pc = "raised") = off.raised
           /\ (rl_pc = "returned") => cropped_white = off.value

FgRows(b) == {r \in 0..(b.h - 1) : ~RowAll255(b, r)}
FgCols(b) == {c \in 0..(b.w - 1) : ~ColAll255(b, c)}

\* C15 as stated: the cuts are the first rows and columns with a foreground
\* pixel seen from each side, and the buffer is cropped to
\* [top+1 : bottom-1, left+1 : right-1].
C15_CutsAtFirstForeground ==
    (rl_pc = "rebinarize" /\ FgRows(binary) # {}) =>
        /\ BlackBounds(binary) =
              [top |-> MinOf(FgRows(binary)), bottom |-> MaxOf(FgRows(binary)),
               left |-> MinOf(FgCols(binary)), right |-> MaxOf(FgCols(binary))]
        /\ cropped = SliceArray(warped,
              PySlice(warped.h, MinOf(FgRows(binary)) + 1, MaxOf(FgRows(binary)) - 1),
              PySlice(warped.w, MinOf(FgCols(binary)) + 1, MaxOf(FgCols(binary)) - 1))

\* The run of entirely-background rows from the top ends at row r.
TopRunEndsAt(b, r) ==
    /\ \A q \in 0..r : RowAll255(b, q)
    /\ r = b.h - 1 \/ ~RowAll255(b, r + 1)
BottomRunStartsAt(b, r) ==
    /\ \A q \in r..(b.h - 1) : RowAll255(b, q)
    /\ r = 0 \/ ~RowAll255(b, r - 1)
LeftRunEndsAt(b, c) ==
    /\ \A q \in 0..c : ColAll255(b, q)
    /\ c = b.w - 1 \/ ~ColAll255(b, c + 1)
RightRunStartsAt(b, c) ==
    /\ \A q \in c..(b.w - 1) : ColAll255(b, q)
    /\ c = 0 \/ ~ColAll255(b, c - 1)

TopCut(b) ==
    IF RowAll255(b, 0) THEN CHOOSE r \in 0..(b.h - 1) : TopRunEndsAt(b, r) ELSE 0
BottomCut(b) ==
    IF RowAll255(b, b.h - 1) THEN CHOOSE r \in 0..(b.h - 1) : BottomRunStartsAt(b, r)
    ELSE b.h
LeftCut(b) ==
    IF ColAll255(b, 0) THEN CHOOSE c \in 0..(b.w - 1) : LeftRunEndsAt(b, c) ELSE 0
RightCut(b) ==
    IF ColAll255(b, b.w - 1) THEN CHOOSE c \in 0..(b.w - 1) : RightRunStartsAt(b, c)
    ELSE b.w

\* C15 amended: the top cut is the last row of the run of entirely-background
\* rows that starts at row 0 (0 when row 0 has a foreground pixel), the bottom
\* cut the first row of the run that ends at the last row (the height when
\* the last row has a foreground pixel), likewise left and right, and both
\* buffers are cropped to [top+1 : bottom-1, left+1 : right-1].
C15_CutsAtBackgroundRuns ==
    (rl_pc = "rebinarize") =>
        /\ cropped = SliceArray(warped,
              PySlice(warped.h, TopCut(binary) + 1, BottomCut(binary) - 1),
              PySlice(warped.w, LeftCut(binary) + 1, RightCut(binary) - 1))
        /\ cropped_white = SliceArray(warped_white,
              PySlice(warped_white.h, TopCut(binary) + 1, BottomCut(binary) - 1),
              PySlice(warped_white.w, LeftCut(binary) + 1, RightCut(binary) - 1))

\* Pass 1 ran on a mask with a background row at the top and left an image.
C15_Witness ==
    /\ rl_pc = "rebinarize"
    /\ RowAll255(binary, 0)
    /\ ~IsEmpty(cropped)

\* Rows r such that every pixel of column y from row x to row r is background.
ReachableRows(b, x, y) ==
    {r \in 0..(b.h - 1) :
        \A q \in Min(x, r)..Max(x, r) : b.px[q][y] = 255}
ReachableCols(b, x, y) ==
    {c \in 0..(b.w - 1) :
        \A q \in Min(y, c)..Max(y, c) : b.px[x][q] = 255}
\* The member of S furthest from p.
FurthestFrom(S, p) == CHOOSE r \in S : \A q \in S : Abs(q - p) <= Abs(r - p)

\* The crop C16 describes for a corner whose pixel is background.
ExpectedCornerCrop(b, e) ==
    LET x == e.point[1]
        y == e.point[2]
        fr == FurthestFrom(ReachableRows(b, x, y), x)
        fc == FurthestFrom(ReachableCols(b, x, y), y)
        onRows == Abs(fr - x) <= Abs(fc - y)
    IN [crop |-> TRUE,
        point |-> IF onRows THEN <<fr, y>> ELSE <<x, fc>>,
        direction |-> IF onRows THEN 0 ELSE 1,
        keep |-> IF (IF onRows THEN e.direction[1] ELSE e.direction[2]) = 1
                 THEN "after" ELSE "before"]

\* C16: for every corner whose pixel is background, navigate_edges proposes
\* the crop on the axis with the smaller displacement to the furthest
\* reachable background coordinate (rows on a tie), at that coordinate, with
\* keep 'after' for scan direction +1 and 'before' for -1.
C16_Pass2AxisChoice ==
    (rl_pc = "apply" /\ rl_k = 1) =>
        \A k \in 1..Len(edges) :
            At(binary, edges[k].point[1], edges[k].point[2]) = 255 =>
                crop_points[k] = ExpectedCornerCrop(binary, edges[k])

\* navigate_edges proposed a crop away from the corner, on the column axis.
C16_Witness ==
    /\ rl_pc = "apply"
    /\ rl_k = 1
    /\ \E k \in 1..Len(edges) :
          /\ crop_points[k].crop
          /\ crop_points[k].direction = 1
          /\ crop_points[k].point # edges[k].point

\* The buffers Pass 1 returns for this call, and the mask made from them.
Pass1Cropped == crop_black_borders(warped, warped_white, BinaryOf(warped))
Pass2Mask == BinaryOf(Pass1Cropped.cropped)
CornerIsForeground(k) ==
    At(Pass2Mask, EdgesOf(Pass2Mask)[k].point[1], EdgesOf(Pass2Mask)[k].point[2]) # 255

\* C17: a corner whose pixel is foreground in the re-binarized mask gets no
\* crop from navigate_edges, the iteration of apply_cropping for it leaves
\* the three buffers as they are, and with four foreground corners Pass 2
\* returns the buffers of Pass 1.
C17_ForegroundCornerSkipped ==
    /\ []((rl_pc \in {"apply", "returned"}) =>
            \A k \in 1..4 : CornerIsForeground(k) => ~crop_points[k].crop)
    /\ [][(rl_pc = "apply" /\ rl_k <= Len(edges) /\ CornerIsForeground(rl_k)) =>
            (binary' = binary /\ cropped' = cropped /\ cropped_white' = cropped_white)]_vars
    /\ []((rl_pc = "returned" /\ \A k \in 1..4 : CornerIsForeground(k)) =>
            /\ binary = Pass2Mask
            /\ cropped = Pass1Cropped.cropped
            /\ cropped_white = Pass1Cropped.cropped_white)

\* A call returned whose re-binarized mask has a foreground pixel at one
\* corner and a background pixel at another.
C17_Witness ==
    /\ rl_pc = "returned"
    /\ \E k \in 1..4 : CornerIsForeground(k)
    /\ \E k \in 1..4 : crop_points[k].crop

\* C18: the corners are applied in the order top-left, top-right,
\* bottom-left, bottom-right, and once both top corners have applied a row
\* crop the buffers are the ones the top-right corner's crop point alone
\* leaves.
C18_LastAppliedWins ==
    /\ (rl_pc = "apply") =>
          [k \in 1..Len(edges) |-> edges[k].name] =
              << "top-left", "top-right", "bottom-left", "bottom-right" >>
    /\ (rl_pc = "apply" /\ rl_k = 3
          /\ crop_points[1].crop /\ crop_points[1].direction = 0
          /\ crop_points[2].crop /\ crop_points[2].direction = 0) =>
          /\ binary = ApplyCrop(Pass2Mask, crop_points[2])
          /\ cropped = ApplyCrop(Pass1Cropped.cropped, crop_points[2])

\* The fixed threshold of get_binary_edges.
RefinerCut == 50

\* C14 as stated: both masks hold only 0 and 255, and 255 is on the same
\* side of the threshold in the Binarizer's mask and in the Border Refiner's.
C14_OnePolarity ==
    (fn_pc = "done" /\ fn_arg.op = "threshold") =>
        /\ fn_res.binarizer \in {0, 255}
        /\ fn_res.refiner \in {0, 255}
        /\ ((fn_res.binarizer = 255) = (fn_arg.g > fn_arg.t))
              = ((fn_res.refiner = 255) = (fn_arg.g > RefinerCut))

\* C14 amended: both masks hold only 0 and 255; the Binarizer's mask has 255
\* exactly at the pixels brighter than its threshold, the Border Refiner's
\* exactly at the pixels not brighter than 50.
C14_TwoPolarities ==
    (fn_pc = "done" /\ fn_arg.op = "threshold") =>
        /\ fn_res.binarizer \in {0, 255}
        /\ fn_res.refiner \in {0, 255}
        /\ (fn_res.binarizer = 255) = (fn_arg.g > fn_arg.t)
        /\ (fn_res.refiner = 255) = (fn_arg.g <= RefinerCut)

\* A pixel brighter than both thresholds: 255 for the Binarizer, 0 for the
\* Border Refiner.
C14_Witness ==
    /\ fn_pc = "done"
    /\ fn_arg.op = "threshold"
    /\ fn_arg.g > fn_arg.t
    /\ fn_arg.g > RefinerCut
    /\ fn_res.binarizer = 255
    /\ fn_res.refiner = 0

\* The odd integers nearest to m / 50.
OddsNear(m) == {o \in 1..(m \div 50 + 2) : o % 2 = 1}
NearestOdds(m) ==
    {o \in OddsNear(m) : \A q \in OddsNear(m) : Abs(50 * o - m) <= Abs(50 * q - m)}
Clamp(v, lo, hi) == Min(Max(v, lo), hi)

\* C20: the kernel side is odd, between 3 and 51, the clamp to [3, 51] of an
\* odd integer nearest to m / 50, and not smaller than the side for m - 1.
C20_BlurKernelSize ==
    (fn_pc = "done" /\ fn_arg.op = "blur") =>
        /\ fn_res % 2 = 1
        /\ 3 <= fn_res /\ fn_res <= 51
        /\ \E o \in NearestOdds(fn_arg.min_dim) : fn_res = Clamp(o, 3, 51)
        /\ fn_arg.min_dim > 1 => fn_res >= BlurKernel(fn_arg.min_dim - 1)

\* A kernel strictly inside the clamp's range.
C20_Witness ==
    /\ fn_pc = "done"
    /\ fn_arg.op = "blur"
    /\ fn_res > 3
    /\ fn_res < 51

\* Number of rows and of columns a crop covers.
CropHeight(c) == c.rows[2] - c.rows[1]
CropWidth(c) == c.cols[2] - c.cols[1]

ExpandedBox(buf, r, b) ==
    LET top == Max(0, r.y - b)
        left == Max(0, r.x - b)
    IN [rows |-> <<Min(top, buf.h), Max(Min(top, buf.h), Min(buf.h, r.y + r.h + b))>>,
        cols |-> <<Min(left, buf.w), Max(Min(left, buf.w), Min(buf.w, r.x + r.w + b))>>]

\* C19: the reference crop and the corrected crop cover exactly their
\* bounding box expanded by b on each side and clipped to the buffer, so no
\* side is expanded by more than b, also when the origin is clamped at 0.
C19_MarginOnEachSide ==
    (w_pc = "returned") =>
        /\ crop_no_rotation = ExpandedBox(w_image, boundingRect(box), w_border)
        /\ w_cropped = ExpandedBox(rotated_np, bounding_rect, w_border)

\* C21: for every image of at least 1 x 1 pixels the border band is at least
\* 1 pixel wide and the central patch at least 1 pixel on a side, so no mean is
\* taken over an empty set and no border strip is the whole image.
C21_PatchesAtLeastOnePixel ==
    (fn_pc = "done" /\ fn_arg.op = "patches") =>
        /\ fn_res.border >= 1
        /\ fn_res.center * 2 >= 1
        /\ ~fn_res.raised
        /\ fn_res.bottom # <<0, fn_arg.h>> \/ fn_arg.h = 1
        /\ fn_res.right # <<0, fn_arg.w>> \/ fn_arg.w = 1

\* C23: in a run of main with verbose=True, once main has ended, normally or
\* with an exception of process_tiff, the spinner thread it started has been
\* signalled through stop() and has ended.
C23_SpinnerStoppedWhenMainEnds ==
    (verbose /\ m_pc \in {"done", "raised"} /\ sp_thread # "none") =>
        (stop_event /\ sp_thread = "exited")

CropIdle ==
    /\ warped = NoArray
    /\ warped_white = NoArray
    /\ binary = NoArray
    /\ cropped = NoArray
    /\ cropped_white = NoArray
    /\ edges = << >>
    /\ crop_points = << >>
    /\ rl_k = 0
    /\ rl_pc = "idle"
    /\ rl_run = 0
    /\ show_step_by_step = FALSE
    /\ plot_corner_discontinuity = FALSE

TiffIdle ==
    /\ image_file = NoneValue
    /\ border_pixels = 0
    /\ image = NoneValue
    /\ thresh = NoneValue
    /\ page_contour = NoneValue
    /\ copied = FALSE
    /\ pt_warped = NoneValue
    /\ written = NoneValue
    /\ pt_trace = << >>
    /\ pt_pc = "idle"
    /\ border_value = NoneValue

MainIdle ==
    /\ image_files = << >>
    /\ image_input_format = "none"
    /\ verbose = FALSE
    /\ info_data = NoneValue
    /\ info_json = NoneValue
    /\ attempted = {}
    /\ m_i = 0
    /\ m_exc = "none"
    /\ m_pc = "idle"
    /\ stop_event = FALSE
    /\ sp_idx = 0
    /\ sp_thread = "none"

WarpIdle ==
    /\ w_image = NoneValue
    /\ w_contour = NoneValue
    /\ w_border = 0
    /\ rect = NoneValue
    /\ angle = NoneValue
    /\ box = << >>
    /\ crop_no_rotation = NoneValue
    /\ M = NoneValue
    /\ rotated_np = NoneValue
    /\ rotated_box = << >>
    /\ bounding_rect = NoneValue
    /\ w_cropped = NoneValue
    /\ w_pc = "idle"

FnIdle ==
    /\ fn_arg = NoneValue
    /\ fn_res = NoneValue
    /\ fn_pc = "idle"

\* The crops remove_lateral_blacks is called with.
ShapesUpTo(mh, mw) == {sh \in (1..mh) \X (1..mw) : sh[1] * sh[2] <= MaxArea}

InputCrops(mh, mw) ==
    UNION {AllArrays(sh[1], sh[2]) : sh \in ShapesUpTo(mh, mw)}
    \cup {Framed(a) : a \in UNION {AllArrays(sh[1], sh[2]) :
                                      sh \in ShapesUpTo(MaxInnerH, MaxInnerW)}}
    \cup {UniformArray(h, w, LightPx) : h \in 1..MaxFullDim, w \in 1..MaxFullDim}

\* The white-background crop: the same picture, or a buffer of another shape.
WhiteCrops(img) ==
    {img} \cup {UniformArray(img.h + 1, img.w, <<255, 255, 255>>),
                UniformArray(img.h, img.w + 1, <<255, 255, 255>>)}

InitCrop ==
    /\ warped \in InputCrops(MaxH, MaxW)
    /\ warped_white \in WhiteCrops(warped)
    /\ binary = NoArray
    /\ cropped = NoArray
    /\ cropped_white = NoArray
    /\ edges = <<>>
    /\ crop_points = <<>>
    /\ rl_k = 0
    /\ rl_pc = "start"
    /\ rl_run = 1
    /\ show_step_by_step \in BOOLEAN
    /\ plot_corner_discontinuity \in BOOLEAN
    /\ TiffIdle
    /\ MainIdle
    /\ WarpIdle
    /\ FnIdle

NextCrop ==
    \/ BinarizeWarped
    \/ CropBlackBorders
    \/ BinarizeCropped
    \/ NavigateEdges
    \/ ApplyCroppingStep
    \/ ReturnCroppedWhite
    \/ RefineAgain

SpecCrop == InitCrop /\ [][NextCrop]_vars

\* process_tiff called on a file.
InitTiff ==
    /\ image_file \in ImageFiles
    /\ border_pixels \in BorderChoices
    /\ image = NoneValue
    /\ thresh = NoneValue
    /\ page_contour = NoneValue
    /\ copied = FALSE
    /\ pt_warped = NoneValue
    /\ written = NoneValue
    /\ pt_trace = << >>
    /\ pt_pc = "start"
    /\ border_value = NoneValue
    /\ CropIdle
    /\ MainIdle
    /\ WarpIdle
    /\ FnIdle

NextTiff ==
    \/ LoadImage
    \/ PreprocessImage
    \/ DetectAndFinish

SpecTiff == InitTiff /\ [][NextTiff]_vars

\* The stages after the Binarizer, from a loaded colour image and a binary
\* mask of its size.
InitStages ==
    /\ image_file \in {f \in ImageFiles : f.readable /\ f.ch = 3}
    /\ border_pixels \in BorderChoices
    /\ image = load_image(image_file)
    /\ thresh \in {MaskOf(image_file.sh, image_file.sw, image_file.frame, b, c) :
                      b \in {0, 255}, c \in {0, 255}}
    /\ page_contour = NoneValue
    /\ copied = FALSE
    /\ pt_warped = NoneValue
    /\ written = NoneValue
    /\ pt_trace = << "LOADED", "BINARIZED" >>
    /\ pt_pc = "detect"
    /\ border_value = NoneValue
    /\ CropIdle
    /\ MainIdle
    /\ WarpIdle
    /\ FnIdle

NextStages ==
    \/ FindPageContour
    \/ BranchOnContour
    \/ SaveOutputs

SpecStages == InitStages /\ [][NextStages]_vars

InitMain ==
    /\ image_files \in SeqsUpTo(BatchFileChoices \cup {[f EXCEPT !.readable = ~f.readable] : f \in BatchFileChoices}, MaxImages)
    /\ image_input_format \in FormatChoices
    /\ verbose \in BOOLEAN
    /\ info_data = NoneValue
    /\ info_json = NoneValue
    /\ attempted = {}
    /\ m_i = 0
    /\ m_exc = "none"
    /\ m_pc = "start"
    /\ stop_event = FALSE
    /\ sp_idx = 0
    /\ sp_thread = "none"
    /\ CropIdle
    /\ WarpIdle
    /\ FnIdle
    /\ image_file = NoneValue
    /\ border_pixels \in BorderChoices
    /\ image = NoneValue
    /\ thresh = NoneValue
    /\ page_contour = NoneValue
    /\ copied = FALSE
    /\ pt_warped = NoneValue
    /\ written = NoneValue
    /\ pt_trace = << >>
    /\ pt_pc = "idle"
    /\ border_value = NoneValue

NextMain ==
    \/ MainSetup
    \/ MainStartSpinner
    \/ MainIteration
    \/ MainStopSpinner
    \/ MainJoinSpinner
    \/ MainFinalize
    \/ SpinnerTick

SpecMain == InitMain /\ [][NextMain]_vars

\* One call of a threshold pair on a pixel, or of the kernel choice on an
\* image's smaller side.
InitFn ==
    /\ fn_arg \in [op : {"threshold"}, g : GrayChoices, t : ThresholdChoices]
                  \cup [op : {"blur"}, min_dim : 1..MaxMinDim]
                  \cup [op : {"patches"}, h : 1..MaxPatchDim, w : 1..MaxPatchDim]
                  \cup [op : {"angle"}, a : ReportedAngles]
    /\ fn_res = NoneValue
    /\ fn_pc = "call"
    /\ CropIdle
    /\ TiffIdle
    /\ MainIdle
    /\ WarpIdle

NextFn ==
    \/ BinarizerThreshold
    \/ RefinerThreshold
    \/ ChooseBlurKernel
    \/ EstimatePatches
    \/ NormaliseReportedAngle

SpecFn == InitFn /\ [][NextFn]_vars

\* One call of warp_image(image, page_contour, border_pixels) with a page
\* inside the image and a margin that is not negative.
InitWarp ==
    /\ w_image \in WarpImages
    /\ w_contour \in WarpContours(w_image)
    /\ w_border \in 0..MaxWarpBorder
    /\ rect = NoneValue
    /\ angle = NoneValue
    /\ box = << >>
    /\ crop_no_rotation = NoneValue
    /\ M = NoneValue
    /\ rotated_np = NoneValue
    /\ rotated_box = << >>
    /\ bounding_rect = NoneValue
    /\ w_cropped = NoneValue
    /\ w_pc = "call"
    /\ CropIdle
    /\ TiffIdle
    /\ MainIdle
    /\ FnIdle

NextWarp ==
    \/ MinAreaRectAndAngle
    \/ CropNoRotation
    \/ RotateImage
    \/ CropRotated
    \/ ReturnWarp

SpecWarp == InitWarp /\ [][NextWarp]_vars

====
